---- MODULE Spec2Model ----
(***************************************************************************)
(* generate_hte10_lattice.py: expansion of a unit-cell bond template file  *)
(* into the bond list of an Nx x Ny x Nz block with periodic boundary      *)
(* conditions.  The script runs top to bottom: it loads the six-column     *)
(* file, builds the header, walks np.ndindex(cells) and, inside it, the    *)
(* templates, appending one bond per (cell, template), then prints.        *)
(*                                                                         *)
(* The integers of the file are np.int32; all values reached within the    *)
(* bounds below are far from 2^31, so they are modelled as integers.       *)
(***************************************************************************)
EXTENDS Integers, Sequences, FiniteSets

(* ------------------------------ bounds -------------------------------- *)
\* largest number of cells along one axis given with -c
MaxDim == 2
\* largest number of rows of a file drawn from the docstring's example rows
MaxRows == 2
\* largest local spin index of a freely drawn row
MaxSpin == 1
\* largest magnitude of a cell offset of a freely drawn row
MaxOff == 2
\* largest magnitude of the increments apply_pbc is probed with
MaxInc == 5

(* ------------------------------ inputs -------------------------------- *)
\* the example file of the help text (kagome lattice), one tuple per row:
\* index spin_i spin_j Tx Ty Tz
Kagome ==
    << <<0, 0, 1, 0, 0, 0>>,
       <<0, 0, 2, 0, 0, 0>>,
       <<0, 1, 2, 0, 0, 0>>,
       <<0, 0, 1, -1, 0, 0>>,
       <<0, 1, 2, 1, -1, 0>>,
       <<0, 0, 2, 0, -1, 0>> >>

KagomeRows == {Kagome[k] : k \in 1..Len(Kagome)}

\* the values -c accepts for one axis: type=int, no range check
DimRange == (0 - 1)..MaxDim

OffRange == (0 - MaxOff)..MaxOff

\* freely drawn rows: second exchange class, any spins, any offsets
FreeRows ==
    {<<1, i, j, tx, ty, tz>> :
        i \in 0..MaxSpin, j \in 0..MaxSpin,
        tx \in OffRange, ty \in OffRange, tz \in OffRange}

\* the same bond listed from its other end
Mirror(r) == <<r[1], r[3], r[2], 0 - r[4], 0 - r[5], 0 - r[6]>>

SeqsOfLen(S, n) == [1..n -> S]

\* the example and the files made of 1..MaxRows of its rows in any order
ExampleFiles ==
    {Kagome} \cup UNION {SeqsOfLen(KagomeRows, n) : n \in 1..MaxRows}

\* the files the program is run on: the example files, and a free row
\* followed by its mirror image
Files == ExampleFiles \cup {<<r, Mirror(r)>> : r \in FreeRows}

(* ------------------------------- state -------------------------------- *)
VARIABLES
    cells,                \* args.cells as a tuple (line 50)
    file,                 \* the rows of the file named on the command line
    pc,                   \* position of the script
    exchanges,            \* list of dicts, one per row (line 54)
    number_of_exchanges,  \* line 56
    number_of_cells,      \* line 57
    number_of_spins,      \* line 58
    header,               \* the three numbers of the header line (line 80)
    x, y, z,              \* current index of np.ndindex (line 88)
    exchange_index,       \* enumerate() counter of the inner loop (line 91)
    htse_def,             \* the bonds appended so far (lines 92-116)
    printed               \* TRUE once print(out) has run (line 120)

vars == <<cells, file, pc, exchanges, number_of_exchanges, number_of_cells,
          number_of_spins, header, x, y, z, exchange_index, htse_def, printed>>

cells_along_x == cells[1]
cells_along_y == cells[2]
cells_along_z == cells[3]

(* ------------------------------ helpers ------------------------------- *)
SeqMax(S) == CHOOSE m \in S : \A n \in S : n <= m

\* np.loadtxt squeezes mono-dimensional axes (ndmin = 0): a file of one row
\* comes back as a 1-D array of its six numbers, any longer file as a 2-D
\* array of rows.  Iterating a 1-D array yields its scalars.
loadtxt(f) == IF Len(f) = 1 THEN f[1] ELSE f

\* dict(zip(['index','spin_i','spin_j','Tx','Ty','Tz'], j_ij))
exchange_dict(j_ij) ==
    [index |-> j_ij[1], spin_i |-> j_ij[2], spin_j |-> j_ij[3],
     Tx |-> j_ij[4], Ty |-> j_ij[5], Tz |-> j_ij[6]]

\* np.prod(cells)
prod(c) == c[1] * c[2] * c[3]

\* 1 + np.max(spin_model_as_array[..., 1:3]) for a 2-D array
NumberOfSpinsMissingOne(arr) ==
    SeqMax({arr[k][2] : k \in 1..Len(arr)} \cup {arr[k][3] : k \in 1..Len(arr)})

NumberOfSpins(arr) ==
    1 + SeqMax({arr[k][2] : k \in 1..Len(arr)} \cup {arr[k][3] : k \in 1..Len(arr)})

\* 'j{:d}'.format(1 + exchange_index)
get_exchange_name(index) == <<"j", 1 + index>>

\* remainder truncated towards zero (the sign of the dividend), as in C
apply_pbc_truncated(component_of_a_vector, increment, boundary) ==
    LET s == component_of_a_vector + increment
    IN  IF s < 0 THEN 0 - ((0 - s) % boundary) ELSE s % boundary

\* out-of-range sums pushed to the nearest edge instead of wrapped
apply_pbc_clamped(component_of_a_vector, increment, boundary) ==
    LET s == component_of_a_vector + increment
    IN  IF s < 0 THEN 0 ELSE IF s >= boundary THEN boundary - 1 ELSE s

\* Python's % takes the sign of the divisor; the boundary is positive
\* wherever the loop body runs
apply_pbc(component_of_a_vector, increment, boundary) ==
    (component_of_a_vector + increment) % boundary

\* the z stride without its cells_along_y factor
get_spin_index_short_stride(spin, nspins, cx, cy, cz, along_x, along_y) ==
    spin + cx * nspins + cy * nspins * along_x + cz * nspins * along_x

get_spin_index(spin, nspins, cx, cy, cz, along_x, along_y) ==
    spin + cx * nspins + cy * nspins * along_x + cz * nspins * along_x * along_y

\* the cell term written x fastest, as get_spin_index has it
spin_index_x_fastest(cx, cy, cz) ==
    (cx + cells_along_x * (cy + cells_along_y * cz)) * number_of_exchanges

\* lines 89-90: the bond index of the cell's first template
spin_index(cx, cy, cz) ==
    (cx * cells_along_y * cells_along_z + cy * cells_along_z + cz)
        * number_of_exchanges

\* one formatted line of htse_def (lines 92-116)
bond_line(e, p) ==
    [bond |-> spin_index(x, y, z) + p,
     s1   |-> get_spin_index(e.spin_i, number_of_spins, x, y, z,
                             cells_along_x, cells_along_y),
     s2   |-> get_spin_index(e.spin_j, number_of_spins,
                             apply_pbc(e.Tx, x, cells_along_x),
                             apply_pbc(e.Ty, y, cells_along_y),
                             apply_pbc(e.Tz, z, cells_along_z),
                             cells_along_x, cells_along_y),
     name |-> get_exchange_name(e.index)]

\* an iterator that takes a negative dimension for an empty one, as range()
ndindex_lenient(shape) ==
    IF \E a \in 1..3 : shape[a] <= 0 THEN "empty" ELSE "cells"

\* np.ndindex(shape): a negative dimension is refused with a ValueError
\* ("negative dimensions are not allowed"), a zero dimension gives an
\* iterator that yields nothing
ndindex(shape) ==
    IF \E a \in 1..3 : shape[a] < 0 THEN "ValueError"
    ELSE IF \E a \in 1..3 : shape[a] = 0 THEN "empty"
    ELSE "cells"

\* np.ndindex walks the shape in C order: the last index moves fastest
ndindex_exhausted ==
    /\ z + 1 >= cells_along_z
    /\ y + 1 >= cells_along_y
    /\ x + 1 >= cells_along_x

ndindex_next ==
    IF z + 1 < cells_along_z THEN <<x, y, z + 1>>
    ELSE IF y + 1 < cells_along_y THEN <<x, y + 1, 0>>
    ELSE <<x + 1, 0, 0>>

(* ------------------------------- Init --------------------------------- *)
\* after argument parsing (line 51), before the file is read
Init ==
    /\ file \in Files
    /\ cells \in IF file \in ExampleFiles
                 THEN DimRange \X DimRange \X DimRange
                 ELSE (1..MaxDim) \X (1..MaxDim) \X (1..MaxDim)
    /\ pc = "load"
    /\ exchanges = <<>>
    /\ number_of_exchanges = 0
    /\ number_of_cells = 0
    /\ number_of_spins = 0
    /\ header = <<>>
    /\ x = 0 /\ y = 0 /\ z = 0
    /\ exchange_index = 0
    /\ htse_def = <<>>
    /\ printed = FALSE

(* ------------------------------ actions ------------------------------- *)
\* lines 53-58.  For a one-row file the array is 1-D, the comprehension of
\* line 54 hands a scalar to zip() and the script stops with a TypeError.
Load ==
    /\ pc = "load"
    /\ LET spin_model_as_array == loadtxt(file)
       IN  IF Len(file) = 1
           THEN /\ pc' = "error"
                /\ UNCHANGED <<exchanges, number_of_exchanges,
                               number_of_cells, number_of_spins>>
           ELSE /\ exchanges' =
                      [k \in 1..Len(spin_model_as_array) |->
                          exchange_dict(spin_model_as_array[k])]
                /\ number_of_exchanges' = Len(spin_model_as_array)
                /\ number_of_cells' = prod(cells)
                /\ number_of_spins' = NumberOfSpins(spin_model_as_array)
                /\ pc' = "header"
    /\ UNCHANGED <<cells, file, header, x, y, z, exchange_index, htse_def,
                   printed>>

\* lines 75-85
WriteHeader ==
    /\ pc = "header"
    /\ header' = <<number_of_cells * number_of_spins,
                   number_of_cells * number_of_exchanges,
                   number_of_spins>>
    /\ pc' = "loop"
    /\ UNCHANGED <<cells, file, exchanges, number_of_exchanges,
                   number_of_cells, number_of_spins, x, y, z, exchange_index,
                   htse_def, printed>>

\* lines 87-88: the iterator is made and asked for its first index
StartLoop ==
    /\ pc = "loop"
    /\ pc' = CASE ndindex(cells) = "ValueError" -> "error"
              [] ndindex(cells) = "empty" -> "join"
              [] ndindex(cells) = "cells" -> "body"
    /\ UNCHANGED <<cells, file, exchanges, number_of_exchanges,
                   number_of_cells, number_of_spins, header, x, y, z,
                   exchange_index, htse_def, printed>>

\* lines 91-116: one pass of the inner loop, then the loop bookkeeping
Emit ==
    /\ pc = "body"
    /\ htse_def' =
          Append(htse_def, bond_line(exchanges[exchange_index + 1], exchange_index))
    /\ IF exchange_index + 1 < Len(exchanges)
       THEN /\ exchange_index' = exchange_index + 1
            /\ UNCHANGED <<x, y, z, pc>>
       ELSE /\ exchange_index' = 0
            /\ IF ndindex_exhausted
               THEN /\ pc' = "join"
                    /\ UNCHANGED <<x, y, z>>
               ELSE /\ x' = ndindex_next[1]
                    /\ y' = ndindex_next[2]
                    /\ z' = ndindex_next[3]
                    /\ UNCHANGED pc
    /\ UNCHANGED <<cells, file, exchanges, number_of_exchanges,
                   number_of_cells, number_of_spins, header, printed>>

\* lines 118-120
PrintOut ==
    /\ pc = "join"
    /\ printed' = TRUE
    /\ pc' = "done"
    /\ UNCHANGED <<cells, file, exchanges, number_of_exchanges,
                   number_of_cells, number_of_spins, header, x, y, z,
                   exchange_index, htse_def>>

Next == Load \/ WriteHeader \/ StartLoop \/ Emit \/ PrintOut

Spec == Init /\ [][Next]_vars

(* --------------------------- vocabulary ------------------------------- *)
Positive == \A a \in 1..3 : cells[a] >= 1

Terminated == pc \in {"done", "error"}

CellsOfBlock ==
    (0..(cells_along_x - 1)) \X (0..(cells_along_y - 1)) \X (0..(cells_along_z - 1))

Increments == (0 - MaxInc)..MaxInc

\* the step appends a bond
Emitting == htse_def' # htse_def

NewBond == htse_def'[Len(htse_def')]

\* the row of the file the inner loop is at
Template == file[exchange_index + 1]

(* ------------------------------ claims -------------------------------- *)

\* C1: for positive dimensions and nspins >= 1, get_spin_index restricted to
\* 0 <= s < nspins and the cells of the block is a bijection onto
\* [0, Nx*Ny*Nz*nspins): no two inputs share an index and every integer of
\* the range is the index of some input.
C1_IndexBijection ==
    (pc = "join" /\ Positive /\ number_of_spins >= 1) =>
        LET Dom == (0..(number_of_spins - 1)) \X CellsOfBlock
            idx(d) == get_spin_index(d[1], number_of_spins, d[2][1], d[2][2],
                                     d[2][3], cells_along_x, cells_along_y)
            Img == {idx(d) : d \in Dom}
        IN  /\ Cardinality(Img) = Cardinality(Dom)
            /\ Img = 0..(cells_along_x * cells_along_y * cells_along_z
                            * number_of_spins - 1)

C1_Witness ==
    /\ pc = "join"
    /\ cells_along_x > 1 /\ cells_along_y > 1 /\ cells_along_z > 1
    /\ number_of_spins > 1
    /\ Len(htse_def) = number_of_cells * number_of_exchanges

\* C2 as stated: the bond emitted for cell (x,y,z) and the template at file
\* position p carries (x + Nx*(y + Ny*z)) * number_of_templates + p.
C2_BondIndexXFastest ==
    [][Emitting =>
        NewBond.bond = (x + cells_along_x * (y + cells_along_y * z)) * Len(file)
                           + exchange_index]_vars

\* C2 as amended: the bond emitted for cell (x,y,z) and the template at file
\* position p carries (z + Nz*(y + Ny*x)) * number_of_templates + p: z runs
\* fastest, then y, then x, the order in which the cells are visited.
C2_BondIndexZFastest ==
    [][Emitting =>
        NewBond.bond = (z + cells_along_z * (y + cells_along_y * x)) * Len(file)
                           + exchange_index]_vars

C2_Witness ==
    /\ pc = "done"
    /\ cells_along_x > 1 /\ cells_along_y > 1
    /\ Len(file) > 1
    /\ \E k \in 1..Len(htse_def) : htse_def[k].bond = Len(file) + 1

\* C3: for positive dimensions and T >= 1 templates, the bond indices in
\* emission order are exactly 0, 1, ..., Nx*Ny*Nz*T - 1, and that many
\* bonds is the number written in the header.
C3_BondIndexDense ==
    (Terminated /\ Positive /\ Len(file) >= 1) =>
        /\ Len(htse_def) = cells_along_x * cells_along_y * cells_along_z * Len(file)
        /\ \A k \in 1..Len(htse_def) : htse_def[k].bond = k - 1
        /\ header[2] = Len(htse_def)

\* C4: the bond emitted for cell (x,y,z) and template (spin_i, spin_j,
\* (Tx,Ty,Tz)) has global_i = spin_i + nspins*(x + Nx*(y + Ny*z)) and
\* global_j = spin_j + nspins*(x' + Nx*(y' + Ny*z')) with x' = (x+Tx) mod Nx,
\* y' = (y+Ty) mod Ny, z' = (z+Tz) mod Nz, the modulo being non-negative.
C4_EndpointFormula ==
    [][Emitting =>
        LET xw == (x + Template[4]) % cells_along_x
            yw == (y + Template[5]) % cells_along_y
            zw == (z + Template[6]) % cells_along_z
        IN  /\ NewBond.s1 = Template[2] + number_of_spins
                    * (x + cells_along_x * (y + cells_along_y * z))
            /\ NewBond.s2 = Template[3] + number_of_spins
                    * (xw + cells_along_x * (yw + cells_along_y * zw))]_vars

\* cell (1,0,0) of the 2x1x1 block, fourth example row (offset (-1,0,0)):
\* the bond starts at spin 0 of cell 1 and ends at spin 1 of cell 0
C4_Witness ==
    /\ pc = "done"
    /\ file = Kagome
    /\ cells = <<2, 1, 1>>
    /\ htse_def[10].s1 = 3
    /\ htse_def[10].s2 = 1

\* C5: for every boundary N >= 1, every coordinate in [0,N) and every
\* increment, negative, zero, positive or larger than N in magnitude,
\* apply_pbc returns a value of [0,N).
C5_PbcRange ==
    (pc = "join" /\ Positive) =>
        \A a \in 1..3 : \A c \in 0..(cells[a] - 1) : \A t \in Increments :
            /\ apply_pbc(t, c, cells[a]) \in 0..(cells[a] - 1)
            /\ apply_pbc(c, t, cells[a]) \in 0..(cells[a] - 1)

\* a row whose x offset is negative and exceeds the block has been expanded
C5_Witness ==
    /\ pc = "join"
    /\ Positive
    /\ htse_def # <<>>
    /\ \E k \in 1..Len(file) : 0 - file[k][4] > cells_along_x

\* C6 as stated: if any of Nx, Ny, Nz is <= 0 the expansion emits no bond
\* and completes normally; it does not end in an error.
C6_DegenerateIsEmpty ==
    (Terminated /\ exchanges # <<>> /\ \E a \in 1..3 : cells[a] <= 0) =>
        /\ pc = "done"
        /\ htse_def = <<>>

\* C6 as amended: if any of Nx, Ny, Nz is <= 0 no bond is emitted; with a
\* negative dimension the run ends in an error, and with a zero and no
\* negative dimension the expansion, once the templates are loaded,
\* completes normally and prints an empty bond list.
C6_ZeroIsEmptyNegativeFails ==
    (Terminated /\ \E a \in 1..3 : cells[a] <= 0) =>
        /\ htse_def = <<>>
        /\ (\E a \in 1..3 : cells[a] < 0) => (pc = "error" /\ ~printed)
        /\ (exchanges # <<>> /\ \A a \in 1..3 : cells[a] >= 0) =>
              (pc = "done" /\ printed /\ header[2] = 0)

C6_Witness ==
    /\ pc = "done"
    /\ printed
    /\ cells_along_y = 0
    /\ cells_along_x > 0 /\ cells_along_z > 0
    /\ htse_def = <<>>

\* C7: for positive dimensions both endpoints of every emitted bond lie in
\* [0, Nx*Ny*Nz*nspins), the site count written in the header, nspins being
\* the header's count of sites in the unit cell.
C7_EndpointsInRange ==
    (pc = "join" /\ Positive) =>
        /\ header[1] = cells_along_x * cells_along_y * cells_along_z * header[3]
        /\ \A k \in 1..Len(htse_def) :
              /\ htse_def[k].s1 \in 0..(header[1] - 1)
              /\ htse_def[k].s2 \in 0..(header[1] - 1)

\* the six example rows on one cell: six bonds, endpoints in [0,3)
C7_Witness ==
    /\ pc = "join"
    /\ file = Kagome
    /\ cells = <<1, 1, 1>>
    /\ Len(htse_def) = 6
    /\ header[1] = 3

\* C8: for every boundary N >= 1, coordinate c and increment t,
\* apply_pbc(c, t, N) = apply_pbc(c, t + N, N).
C8_PbcPeriod ==
    (pc = "join" /\ Positive) =>
        \A a \in 1..3 : \A c \in 0..(cells[a] - 1) : \A t \in Increments :
            /\ apply_pbc(t, c, cells[a]) = apply_pbc(t + cells[a], c, cells[a])
            /\ apply_pbc(c, t, cells[a]) = apply_pbc(c, t + cells[a], cells[a])

\* two rows whose x offsets differ by the block size have been expanded and
\* their bonds of the first cell end in the same cell
C8_Witness ==
    /\ pc = "join"
    /\ cells_along_x > 1
    /\ Len(file) = 2
    /\ file[2][4] = file[1][4] + cells_along_x
    /\ file[1][2] = file[1][3]
    /\ htse_def[1].s2 = htse_def[2].s2

\* C9: for positive dimensions and every template t of the file, over the
\* whole printed output each global spin with local index t.spin_i is
\* global_i of exactly one bond of t, and each global spin with local index
\* t.spin_j is global_j of exactly one bond of t.
C9_OneBondPerSpin ==
    (pc = "done" /\ Positive) =>
        LET T == Len(file)
            nspins == header[3]
            BondsOf(p) == {k \in 1..Len(htse_def) : (k - 1) % T = p - 1}
            gi(s, c) == get_spin_index(s, nspins, c[1], c[2], c[3],
                                       cells_along_x, cells_along_y)
        IN  \A p \in 1..T : \A c \in CellsOfBlock :
              /\ Cardinality({k \in BondsOf(p) :
                                 htse_def[k].s1 = gi(file[p][2], c)}) = 1
              /\ Cardinality({k \in BondsOf(p) :
                                 htse_def[k].s2 = gi(file[p][3], c)}) = 1

\* a row whose offset leaves the block along x and y has been expanded on a
\* block of several cells along both
C9_Witness ==
    /\ pc = "done"
    /\ cells_along_x > 1 /\ cells_along_y > 1
    /\ file[1][4] % cells_along_x # 0
    /\ file[1][5] % cells_along_y # 0
    /\ Len(htse_def) = cells_along_x * cells_along_y * cells_along_z * Len(file)

\* C10: for positive dimensions an emitted bond has global_i = global_j if
\* and only if its template has spin_i = spin_j and every offset component
\* is a multiple of the block size along its axis.
C10_SelfBondIff ==
    [][Emitting =>
        ((NewBond.s1 = NewBond.s2) <=>
            /\ Template[2] = Template[3]
            /\ Template[4] % cells_along_x = 0
            /\ Template[5] % cells_along_y = 0
            /\ Template[6] % cells_along_z = 0)]_vars

\* a same-spin row with x offset 1 expanded on an x axis of one cell
C10_Witness ==
    /\ pc = "done"
    /\ cells_along_x = 1
    /\ file[1][2] = file[1][3]
    /\ file[1][4] = 1
    /\ htse_def[1].s1 = htse_def[1].s2

====
